---- MODULE Spec2Model ----
(***************************************************************************)
(* Model of the book lookup lambda (src/src/main.rs): the lazily created   *)
(* DynamoDB client, the BookEntity codec, the error responses and the      *)
(* `hello` handler, run by several concurrent invocations against a        *)
(* "books" table that test fixtures and other writers change.              *)
(***************************************************************************)
EXTENDS Integers, Sequences, FiniteSets, TLC

(* ---------------------------------------------------------------------- *)
(* Bounds                                                                  *)
(* ---------------------------------------------------------------------- *)
NumInvocations == 2

Invocations == 1..NumInvocations

(* the sampled uuid values *)
Uuids == {1}

(* Option<T> and Result<T, E> *)
None == <<>>
Some(v) == <<v>>
Ok(v) == [tag |-> "Ok", value |-> v]
Err(e) == [tag |-> "Err", error |-> e]

(* ---------------------------------------------------------------------- *)
(* Uuid <-> String                                                         *)
(* ---------------------------------------------------------------------- *)
HexLower == <<"0","1","2","3","4","5","6","7","8","9","a","b","c","d","e","f">>
HexUpper == <<"0","1","2","3","4","5","6","7","8","9","A","B","C","D","E","F">>

RECURSIVE Rep(_, _)
Rep(c, n) == IF n = 0 THEN "" ELSE c \o Rep(c, n - 1)

(* The k-th sampled 128-bit value has every one of its 32 nibbles equal to *)
(* Nibble(k): 0xaaaa..., 0xbbbb..., ...                                    *)
Nibble(k) == (9 + k) % 16

Hyphenated(c) ==
    Rep(c, 8) \o "-" \o Rep(c, 4) \o "-" \o Rep(c, 4) \o "-" \o Rep(c, 4) \o "-" \o Rep(c, 12)

Simple(c) == Rep(c, 32)

(* the lower-case hyphenated text of each sampled value *)
HyphenatedLower == [id \in Uuids |-> Hyphenated(HexLower[Nibble(id) + 1])]

(* Uuid::to_string: lower-case hyphenated form *)
to_string(id) == HyphenatedLower[id]

(* The texts Uuid::parse_str accepts for each value: hyphenated, simple    *)
(* and urn forms, hex digits in either case.                               *)
ParsedAs ==
    [id \in Uuids |->
        LET lo == HexLower[Nibble(id) + 1]
            up == HexUpper[Nibble(id) + 1]
        IN  { Hyphenated(lo), Hyphenated(up), Simple(lo), Simple(up),
              "urn:uuid:" \o Hyphenated(lo), "urn:uuid:" \o Hyphenated(up) }]

AcceptedForms(id) == ParsedAs[id]

parse_str(s) ==
    IF \E id \in Uuids : s \in AcceptedForms(id)
    THEN Ok(CHOOSE id \in Uuids : s \in AcceptedForms(id))
    ELSE Err("InvalidUuid")

(* ---------------------------------------------------------------------- *)
(* BookEntity and its dynomite codec                                       *)
(* ---------------------------------------------------------------------- *)
Titles == {"", "rust"}

BookEntity == [id : Uuids, title : Titles]

(* dynomite AttributeValue: a string (S) or a number (N) attribute *)
AttrS(x) == [s |-> Some(x), n |-> None]
AttrN(x) == [s |-> None, n |-> Some(x)]

(* faulty variant: the title is stored under the Rust field name *)
into_attrs_no_rename(book) ==
    ("id" :> AttrS(to_string(book.id))) @@ ("title" :> AttrS(book.title))

(* From<BookEntity> for Attributes *)
into_attrs(book) ==
    ("id" :> AttrS(to_string(book.id))) @@ ("bookTitle" :> AttrS(book.title))

(* BookEntity::key() *)
BookKey(book) == "id" :> AttrS(to_string(book.id))

(* Attribute::from_attr for Uuid *)
uuid_from_attr(value) ==
    IF value.s = None THEN Err("InvalidType")
    ELSE LET parsed == parse_str(value.s[1])
         IN  IF parsed.tag = "Ok" THEN parsed ELSE Err("InvalidFormat")

(* Attribute::from_attr for String *)
string_from_attr(value) ==
    IF value.s = None THEN Err("InvalidType") ELSE Ok(value.s[1])

(* FromAttributes for BookEntity *)
from_attrs(attrs) ==
    LET id == IF "id" \in DOMAIN attrs
              THEN uuid_from_attr(attrs["id"])
              ELSE Err("MissingField")
        title == IF "bookTitle" \in DOMAIN attrs
                 THEN string_from_attr(attrs["bookTitle"])
                 ELSE Ok("")
    IN  IF id.tag = "Err" THEN id
        ELSE IF title.tag = "Err" THEN title
        ELSE Ok([id |-> id.value, title |-> title.value])

(* ---------------------------------------------------------------------- *)
(* JSON (serde_json::to_string): an object is the sequence of its          *)
(* <<key, value>> members in field order                                   *)
(* ---------------------------------------------------------------------- *)
JStr(s) == [kind |-> "string", text |-> s]
JNull == [kind |-> "null", text |-> ""]

JsonKeys(body) == { body[j][1] : j \in 1..Len(body) }
JsonHas(body, k) == k \in JsonKeys(body)
JsonGet(body, k) == body[CHOOSE j \in 1..Len(body) : body[j][1] = k][2]

(* faulty variant: the id is written in the simple (unhyphenated) form *)
SimpleLower == [id \in Uuids |-> Simple(HexLower[Nibble(id) + 1])]
json_uuid_serialize_simple(id) == SimpleLower[id]

(* json_uuid::serialize *)
json_uuid_serialize(id) == to_string(id)

(* Serialize for BookEntity *)
BookEntityJson(book) ==
    << <<"id", JStr(json_uuid_serialize(book.id))>>,
       <<"title", JStr(book.title)>> >>

ErrorType == {"RequestInvalid", "RequestUnauthorized", "NotFound", "InternalServerError"}

(* #[serde(rename_all = "snake_case")] *)
snake_case(error_type) ==
    CASE error_type = "RequestInvalid" -> "request_invalid"
      [] error_type = "RequestUnauthorized" -> "request_unauthorized"
      [] error_type = "NotFound" -> "not_found"
      [] error_type = "InternalServerError" -> "internal_server_error"

(* faulty variant: an absent error_codes is written as null *)
ErrorResponseJson_with_null(e) ==
    << <<"request_id", JStr(e.request_id)>>,
       <<"error_type", JStr(snake_case(e.error_type))>>,
       <<"error_codes", JNull>> >>

(* Serialize for ErrorResponse *)
ErrorResponseJson(e) ==
    << <<"request_id", JStr(e.request_id)>>,
       <<"error_type", JStr(snake_case(e.error_type))>> >>
    \o (IF e.error_codes = None THEN <<>>
        ELSE << <<"error_codes", [kind |-> "array", text |-> e.error_codes[1]]>> >>)

ErrorResponse_not_found(request_id) ==
    [request_id |-> request_id, error_type |-> "NotFound", error_codes |-> None]

ErrorResponse_internal_server(request_id) ==
    [request_id |-> request_id, error_type |-> "InternalServerError", error_codes |-> None]

(* ---------------------------------------------------------------------- *)
(* Responses                                                               *)
(* ---------------------------------------------------------------------- *)
NOT_FOUND == 404
INTERNAL_SERVER_ERROR == 500

(* faulty variant: the response carries no request id *)
not_found_anonymous(request_id) ==
    [status |-> NOT_FOUND, headers |-> {},
     body |-> ErrorResponseJson(ErrorResponse_not_found(""))]

(* faulty variant: a missing book is reported as an invalid request *)
not_found_as_invalid(request_id) ==
    [status |-> 400, headers |-> {},
     body |-> ErrorResponseJson([request_id |-> request_id,
                                 error_type |-> "RequestInvalid",
                                 error_codes |-> None])]

not_found(request_id) ==
    [status |-> NOT_FOUND, headers |-> {},
     body |-> ErrorResponseJson(ErrorResponse_not_found(request_id))]

(* faulty variant: a store failure is reported as a bad gateway *)
internal_server_bad_gateway(request_id) ==
    [status |-> 502, headers |-> {},
     body |-> ErrorResponseJson(ErrorResponse_internal_server(request_id))]

internal_server(request_id) ==
    [status |-> INTERNAL_SERVER_ERROR, headers |-> {},
     body |-> ErrorResponseJson(ErrorResponse_internal_server(request_id))]

(* faulty variant: the second header is left out *)
book_response_one_header(books) ==
    [status |-> 200, headers |-> {<<"x-foo-bar", "bar">>},
     body |-> BookEntityJson(books)]

(* the Response::builder() chain of hello *)
book_response(books) ==
    [status |-> 200,
     headers |-> {<<"x-foo-bar", "bar">>, <<"x-bar-baz", "baz">>},
     body |-> BookEntityJson(books)]

(* ---------------------------------------------------------------------- *)
(* Store client selection                                                  *)
(* ---------------------------------------------------------------------- *)
local_client ==
    [region |-> "us-east-1", endpoint |-> "http://localhost:8000", retries |-> "default"]

remote_client ==
    [region |-> "eu-west-2", endpoint |-> "https://dynamodb.eu-west-2.amazonaws.com",
     retries |-> "default"]

(* values of the ENV environment variable; None is "not set" *)
EnvValues == {None, Some("live"), Some("Live")}

(* faulty variant: an unset ENV selects the live endpoint *)
create_client_default_live(var) ==
    LET e == IF var = None THEN "live" ELSE var[1]
    IN  IF e = "live" THEN remote_client ELSE local_client

(* create_client, given the result of env::var("ENV") *)
create_client(var) ==
    LET e == IF var = None THEN "" ELSE var[1]
    IN  IF e = "live" THEN remote_client ELSE local_client

(* ---------------------------------------------------------------------- *)
(* The "books" table                                                       *)
(* ---------------------------------------------------------------------- *)
(* items written by something other than insert_book: one without a       *)
(* title, one whose title is of number type, one whose id is no uuid       *)
ForeignItems ==
    { "id" :> AttrS(to_string(1)),
      ("id" :> AttrS(to_string(1))) @@ ("bookTitle" :> AttrN("1")),
      ("id" :> AttrS("foo-bar")) @@ ("bookTitle" :> AttrS("rust")) }

Items == { into_attrs(book) : book \in BookEntity } \cup ForeignItems

(* the partition key of an item: its "id" string attribute *)
PartitionKey(item) == item["id"].s[1]

StoreKeys == { PartitionKey(item) : item \in Items }

(* errors a get_item call ends in once the retry policy gives up *)
StoreErrors == {"HttpDispatch"}

(* path parameters of a request: the value under "id", if any *)
PathParameters == {None, Some("")} \cup { Some(k) : k \in StoreKeys }

(* Context::request_id of the i-th invocation *)
RequestIds == [i \in Invocations |-> "req-" \o ToString(i)]
AwsRequestId(i) == RequestIds[i]

VARIABLES
    env,            \* the ENV environment variable
    once,           \* state of the lazy_static cell DB
    DB,             \* the client held by the cell, None before initialisation
    store,          \* the "books" table: partition key -> Option<item>
    pc,             \* where each invocation of hello is
    request,        \* its path parameter "id"
    context,        \* its Context
    call,           \* the GetItemInput it sent, and the client it sent it with
    book_raw_item,  \* what the get_item call returned
    response        \* the response it returned

vars == <<env, once, DB, store, pc, request, context, call, book_raw_item, response>>
invocation_vars == <<pc, request, context, call, book_raw_item, response>>

Init ==
    /\ env \in EnvValues
    /\ once = "incomplete"
    /\ DB = None
    /\ store = [k \in StoreKeys |-> None]
    /\ pc = [i \in Invocations |-> "idle"]
    /\ request = [i \in Invocations |-> None]
    /\ context = [i \in Invocations |-> [request_id |-> ""]]
    /\ call = [i \in Invocations |-> None]
    /\ book_raw_item = [i \in Invocations |-> None]
    /\ response = [i \in Invocations |-> None]

(* ---------------------------------------------------------------------- *)
(* Environment: the table's writers and the process environment            *)
(* ---------------------------------------------------------------------- *)
PutItem(item) ==
    /\ store[PartitionKey(item)] # Some(item)
    /\ store' = [store EXCEPT ![PartitionKey(item)] = Some(item)]
    /\ UNCHANGED <<env, once, DB, invocation_vars>>

insert_book(book) == PutItem(into_attrs(book))

DeleteItem(key) ==
    /\ PartitionKey(key) \in StoreKeys
    /\ store[PartitionKey(key)] # None
    /\ store' = [store EXCEPT ![PartitionKey(key)] = None]
    /\ UNCHANGED <<env, once, DB, invocation_vars>>

delete_book(book) == DeleteItem(BookKey(book))

SetEnv(value) ==
    /\ value # env
    /\ env' = value
    /\ UNCHANGED <<once, DB, store, invocation_vars>>

(* get_item on the table: the item under the key's partition key, if any.  *)
(* No item has the empty string as its key, so the empty key finds none.   *)
GetItem(input) ==
    LET k == PartitionKey(input.key)
    IN  IF k \in StoreKeys THEN store[k] ELSE None

(* ---------------------------------------------------------------------- *)
(* hello                                                                   *)
(* ---------------------------------------------------------------------- *)
(* faulty variant: a request without an id is looked up under the parameter name *)
path_id_name(qs) == IF qs = None THEN "id" ELSE qs[1]

(* qs.get("id").or_else(|| Some("")).unwrap() *)
path_id(qs) == IF qs = None THEN "" ELSE qs[1]

(* the GetItemInput of hello, and the client it is sent with *)
get_item_input(client, key) ==
    [client |-> client, table_name |-> "books", key |-> ("id" :> AttrS(key))]

(* faulty variant: an item that does not decode is answered with a 500 *)
hello_resume_mapped(raw, ctx) ==
    IF raw.tag = "Err"
    THEN [fault |-> FALSE, response |-> Some(internal_server(ctx.request_id))]
    ELSE LET try_book == IF raw.value.item = None THEN None
                         ELSE Some(from_attrs(raw.value.item[1]))
         IN  IF try_book # None
             THEN IF try_book[1].tag = "Err"
                  THEN [fault |-> FALSE, response |-> Some(internal_server(ctx.request_id))]
                  ELSE [fault |-> FALSE, response |-> Some(book_response(try_book[1].value))]
             ELSE [fault |-> FALSE, response |-> Some(not_found(ctx.request_id))]

(* hello from the return of the get_item call to its own return *)
hello_resume(raw, ctx) ==
    IF raw.tag = "Err"
    THEN [fault |-> FALSE, response |-> Some(internal_server(ctx.request_id))]
    ELSE LET try_book == IF raw.value.item = None THEN None
                         ELSE Some(from_attrs(raw.value.item[1]))
         IN  IF try_book # None
             THEN IF try_book[1].tag = "Err"
                  THEN [fault |-> TRUE, response |-> None]
                  ELSE [fault |-> FALSE, response |-> Some(book_response(try_book[1].value))]
             ELSE [fault |-> FALSE, response |-> Some(not_found(ctx.request_id))]

(* hello up to the first use of DB. The cell is initialised: the call is   *)
(* sent. It is not: this invocation runs the initialiser. Another          *)
(* invocation is running it: this one waits for it.                        *)
Invoke(i, qs) ==
    /\ pc[i] = "idle"
    /\ request' = [request EXCEPT ![i] = qs]
    /\ context' = [context EXCEPT ![i] = [request_id |-> AwsRequestId(i)]]
    /\ CASE once = "complete" ->
              /\ pc' = [pc EXCEPT ![i] = "awaiting"]
              /\ call' = [call EXCEPT ![i] = Some(get_item_input(DB[1], path_id(qs)))]
              /\ once' = once
         [] once = "incomplete" ->
              /\ pc' = [pc EXCEPT ![i] = "init"]
              /\ once' = "running"
              /\ call' = call
         [] once = "running" ->
              /\ pc' = [pc EXCEPT ![i] = "waiting"]
              /\ UNCHANGED <<once, call>>
    /\ UNCHANGED <<env, DB, store, book_raw_item, response>>

(* the initialiser of DB: create_client reads ENV, the cell is set, and    *)
(* the invocation that ran it sends its call                               *)
CreateClient(i) ==
    /\ pc[i] = "init"
    /\ DB' = Some(create_client(env))
    /\ once' = "complete"
    /\ call' = [call EXCEPT ![i] = Some(get_item_input(DB'[1], path_id(request[i])))]
    /\ pc' = [pc EXCEPT ![i] = "awaiting"]
    /\ UNCHANGED <<env, store, request, context, book_raw_item, response>>

(* an invocation that waited for the initialiser sends its call *)
OnceWaitDone(i) ==
    /\ pc[i] = "waiting"
    /\ once = "complete"
    /\ call' = [call EXCEPT ![i] = Some(get_item_input(DB[1], path_id(request[i])))]
    /\ pc' = [pc EXCEPT ![i] = "awaiting"]
    /\ UNCHANGED <<env, once, DB, store, request, context, book_raw_item, response>>

(* the get_item call returns and hello runs to its end *)
Resume(i, raw) ==
    /\ pc[i] = "awaiting"
    /\ book_raw_item' = [book_raw_item EXCEPT ![i] = Some(raw)]
    /\ LET out == hello_resume(raw, context[i])
       IN  /\ response' = [response EXCEPT ![i] = out.response]
           /\ pc' = [pc EXCEPT ![i] = IF out.fault THEN "panicked" ELSE "responded"]
    /\ UNCHANGED <<env, once, DB, store, request, context, call>>

GetItemOk(i) == Resume(i, Ok([item |-> GetItem(call[i][1])]))

GetItemErr(i, e) == Resume(i, Err(e))

Next ==
    \/ \E i \in Invocations, qs \in PathParameters : Invoke(i, qs)
    \/ \E i \in Invocations : CreateClient(i)
    \/ \E i \in Invocations : OnceWaitDone(i)
    \/ \E i \in Invocations : GetItemOk(i)
    \/ \E i \in Invocations, e \in StoreErrors : GetItemErr(i, e)
    \/ \E book \in BookEntity : insert_book(book)
    \/ \E item \in ForeignItems : PutItem(item)
    \/ \E book \in BookEntity : delete_book(book)
    \/ \E item \in ForeignItems : DeleteItem(item)
    \/ \E value \in EnvValues : SetEnv(value)

Spec == Init /\ [][Next]_vars

(* ---------------------------------------------------------------------- *)
(* Properties                                                              *)
(* ---------------------------------------------------------------------- *)
Returned(i) == pc[i] \in {"responded", "panicked"}

(* invocation i is taking the step in which its get_item call returns *)
Returning(i) == pc[i] = "awaiting" /\ pc'[i] # "awaiting"

HasStatus(i, status) == response[i] # None /\ response[i][1].status = status

ErrorKind(resp) ==
    IF JsonHas(resp.body, "error_type") THEN JsonGet(resp.body, "error_type").text ELSE "none"

(* C1: a lookup by the canonical id of a book that is in the table, whose  *)
(* store call succeeds, returns 200, the book's title in the body and the  *)
(* headers x-foo-bar: bar and x-bar-baz: baz.                              *)
C1_StoredBookIsReturned ==
    [][\A i \in Invocations, book \in BookEntity :
          ( /\ Returning(i)
            /\ request[i] = Some(to_string(book.id))
            /\ store[to_string(book.id)] = Some(into_attrs(book))
            /\ book_raw_item'[i][1].tag = "Ok" )
          => /\ pc'[i] = "responded"
             /\ response'[i] # None
             /\ response'[i][1].status = 200
             /\ JsonGet(response'[i][1].body, "title") = JStr(book.title)
             /\ <<"x-foo-bar", "bar">> \in response'[i][1].headers
             /\ <<"x-bar-baz", "baz">> \in response'[i][1].headers
             /\ \A h \in response'[i][1].headers :
                   h[1] \in {"x-foo-bar", "x-bar-baz"} => h[2] \in {"bar", "baz"}
      ]_vars

C1_Witness ==
    \E i \in Invocations, book \in BookEntity :
        /\ pc[i] = "responded"
        /\ book.title = "rust"
        /\ request[i] = Some(to_string(book.id))
        /\ book_raw_item[i] = Some(Ok([item |-> Some(into_attrs(book))]))
        /\ HasStatus(i, 200)

(* the uuid a stored id text stands for, and the title a stored item has *)
UuidOfText(s) == CHOOSE id \in Uuids : s \in AcceptedForms(id)
TitleOfItem(item) == IF "bookTitle" \in DOMAIN item THEN item["bookTitle"].s[1] ELSE ""

(* C2 as stated: the body of a 200 response has exactly the keys "id" and  *)
(* "bookTitle".                                                            *)
C2_BodyUsesStoreFieldName ==
    \A i \in Invocations :
        HasStatus(i, 200) => JsonKeys(response[i][1].body) = {"id", "bookTitle"}

(* C2 amended: the body of a 200 response is the JSON object with exactly  *)
(* two members, "id" (the canonical text of the uuid) and then "title"     *)
(* (the title); the name bookTitle is used in the table only.              *)
C2_BodyIsIdAndTitle ==
    \A i \in Invocations :
        HasStatus(i, 200) =>
            LET item == book_raw_item[i][1].value.item[1]
            IN  response[i][1].body =
                    << <<"id", JStr(to_string(UuidOfText(PartitionKey(item))))>>,
                       <<"title", JStr(TitleOfItem(item))>> >>

C2_Witness ==
    \E i \in Invocations :
        /\ HasStatus(i, 200)
        /\ JsonGet(response[i][1].body, "title") = JStr("rust")
        /\ ~ JsonHas(response[i][1].body, "bookTitle")

(* C3: a lookup of an identifier (a uuid text, "foo-bar" or "") under      *)
(* which the table holds nothing, whose store call succeeds, returns 404   *)
(* with error_type not_found and no error_codes member.                    *)
C3_MissingBookIsNotFound ==
    [][\A i \in Invocations :
          ( /\ Returning(i)
            /\ GetItem(call[i][1]) = None
            /\ book_raw_item'[i][1].tag = "Ok" )
          => /\ pc'[i] = "responded"
             /\ response'[i] # None
             /\ response'[i][1].status = 404
             /\ JsonGet(response'[i][1].body, "error_type") = JStr("not_found")
             /\ ~ JsonHas(response'[i][1].body, "error_codes")
      ]_vars

C3_Witness ==
    \E i, j \in Invocations :
        /\ request[i] = Some("foo-bar") /\ HasStatus(i, 404)
        /\ request[j] = Some("") /\ HasStatus(j, 404)
        /\ ~ JsonHas(response[i][1].body, "error_codes")

(* C4: when the get_item call fails the handler returns, and what it       *)
(* returns is status 500 with a body of exactly request_id and             *)
(* error_type = internal_server_error: no error_codes, nothing of the      *)
(* store error, no book.                                                   *)
C4_StoreFailureIs500 ==
    \A i \in Invocations :
        (book_raw_item[i] # None /\ book_raw_item[i][1].tag = "Err") =>
            /\ pc[i] = "responded"
            /\ response[i] # None
            /\ response[i][1].status = 500
            /\ response[i][1].body =
                   << <<"request_id", JStr(context[i].request_id)>>,
                      <<"error_type", JStr("internal_server_error")>> >>

C4_Witness ==
    \E i \in Invocations :
        /\ book_raw_item[i] = Some(Err("HttpDispatch"))
        /\ HasStatus(i, 500)

(* C5 as stated: a request without the path parameter id always ends in    *)
(* the 404 not_found response.                                             *)
C5_NoIdIsAlways404 ==
    \A i \in Invocations :
        (Returned(i) /\ request[i] = None) =>
            /\ HasStatus(i, 404)
            /\ ErrorKind(response[i][1]) = "not_found"

(* C5 amended: a request without the path parameter id is not rejected:    *)
(* get_item is called on table books with key id = "", and the outcome is  *)
(* the one of that call: 404 not_found when it succeeds and finds no item, *)
(* 500 only when the call itself fails, never request_invalid.             *)
C5_NoIdLooksUpEmptyKey ==
    \A i \in Invocations :
        (pc[i] \in {"awaiting", "responded", "panicked"} /\ request[i] = None) =>
            /\ call[i] # None
            /\ call[i][1].table_name = "books"
            /\ call[i][1].key = ("id" :> AttrS(""))
            /\ Returned(i) =>
                  /\ book_raw_item[i][1] = Ok([item |-> None]) =>
                        HasStatus(i, 404) /\ ErrorKind(response[i][1]) = "not_found"
                  /\ HasStatus(i, 500) => book_raw_item[i][1].tag = "Err"
                  /\ response[i] # None => ErrorKind(response[i][1]) # "request_invalid"

C5_Witness ==
    \E i, j \in Invocations :
        /\ request[i] = None /\ pc[i] = "responded" /\ HasStatus(i, 404)
        /\ request[j] = None /\ pc[j] = "responded" /\ HasStatus(j, 500)

(* C6: the client is selected once, when DB is first used: the live        *)
(* endpoint if and only if ENV is exactly "live" at that moment, the local *)
(* endpoint otherwise; the selection never changes afterwards, whatever    *)
(* ENV becomes, only one invocation runs the initialiser, and every call   *)
(* is sent with the selected client.                                       *)
C6_ClientSelectedOnce ==
    [][ /\ (DB = None /\ DB' # None) =>
              DB'[1] = IF env = Some("live") THEN remote_client ELSE local_client
        /\ DB # None => DB' = DB
        /\ Cardinality({i \in Invocations : pc'[i] = "init"}) <= 1
        /\ \A i \in Invocations :
              call'[i] # None => (DB' # None /\ call'[i][1].client = DB'[1])
      ]_vars

C6_Witness ==
    \E i, j \in Invocations :
        /\ i # j
        /\ call[i] # None /\ call[j] # None
        /\ call[i][1].client = local_client
        /\ call[j][1].client = local_client
        /\ env = Some("live")

(* C7: a book written by insert_book decodes to the same book: the item    *)
(* the table then holds under the book's canonical id gives back the id    *)
(* and the title, the empty title included.                                *)
C7_EncodeDecodeRoundTrip ==
    [][\A book \in BookEntity :
          insert_book(book) =>
              from_attrs(store'[to_string(book.id)][1]) = Ok(book)
      ]_vars

C7_Witness ==
    \E book \in BookEntity :
        /\ book.title = "rust"
        /\ store[to_string(book.id)] = Some(into_attrs(book))
        /\ "bookTitle" \in DOMAIN store[to_string(book.id)][1]

(* C8: the request_id of a 404 or 500 body is the request id of the        *)
(* invocation that returned it, and of no other invocation.                *)
C8_OwnRequestId ==
    \A i \in Invocations :
        (response[i] # None /\ response[i][1].status \in {404, 500}) =>
            /\ JsonGet(response[i][1].body, "request_id") = JStr(context[i].request_id)
            /\ context[i].request_id = AwsRequestId(i)
            /\ \A j \in Invocations \ {i} :
                  JsonGet(response[i][1].body, "request_id") # JStr(AwsRequestId(j))

C8_Witness ==
    \E i, j \in Invocations :
        /\ i # j
        /\ HasStatus(i, 404)
        /\ pc[j] = "awaiting"
        /\ JsonGet(response[i][1].body, "request_id") = JStr(AwsRequestId(i))

(* C9: every response is (200, no error body), (404, not_found) or         *)
(* (500, internal_server_error).                                           *)
C9_StatusMatchesKind ==
    \A i \in Invocations :
        response[i] # None =>
            <<response[i][1].status, ErrorKind(response[i][1])>> \in
                { <<200, "none">>, <<404, "not_found">>, <<500, "internal_server_error">> }

C9_Witness ==
    \E i, j \in Invocations :
        /\ HasStatus(i, 200) /\ ErrorKind(response[i][1]) = "none"
        /\ HasStatus(j, 404) /\ ErrorKind(response[j][1]) = "not_found"

(* an item whose id is missing, is no string or is no uuid text, or whose  *)
(* title is no string                                                      *)
Undecodable(item) ==
    \/ "id" \notin DOMAIN item
    \/ item["id"].s = None
    \/ \A id \in Uuids : item["id"].s[1] \notin AcceptedForms(id)
    \/ "bookTitle" \in DOMAIN item /\ item["bookTitle"].s = None

(* C10: when the get_item call returns an item that does not decode, the   *)
(* invocation panics and returns no response; an item that only lacks the  *)
(* title decodes, and the response is 200 with an empty title.             *)
C10_UndecodableItemPanics ==
    \A i \in Invocations :
        ( /\ book_raw_item[i] # None
          /\ book_raw_item[i][1].tag = "Ok"
          /\ book_raw_item[i][1].value.item # None ) =>
            LET item == book_raw_item[i][1].value.item[1]
            IN  /\ Undecodable(item) => (pc[i] = "panicked" /\ response[i] = None)
                /\ (~ Undecodable(item) /\ "bookTitle" \notin DOMAIN item) =>
                      /\ pc[i] = "responded"
                      /\ HasStatus(i, 200)
                      /\ JsonGet(response[i][1].body, "title") = JStr("")

C10_Witness ==
    \E i, j \in Invocations :
        /\ pc[i] = "panicked"
        /\ PartitionKey(book_raw_item[i][1].value.item[1]) = "foo-bar"
        /\ pc[j] = "responded"
        /\ book_raw_item[j] = Some(Ok([item |-> Some("id" :> AttrS(to_string(1)))]))

====
